---- MODULE Spec2Model ----
(***************************************************************************)
(* QuickBuildEstimate: the cost engine (cost_engine.py), the Estimate /    *)
(* MaterialItem / LaborItem tables (models.py), the request handlers       *)
(* (routes.py), the session gate (auth.py) and the purge (utils.py).       *)
(*                                                                         *)
(* Numbers.  Python floats are modelled by exact decimal arithmetic:       *)
(*   - a cost read from a CSV, a line item's total_cost and the three      *)
(*     running sums are integers counting mills (1/1000 dollar);           *)
(*   - an unrounded amount is a record [w, f]: w whole cents plus f        *)
(*     hundred-thousandths of a cent (0 <= f < 100000), which holds        *)
(*     subtotal * p/100 * c/100 exactly for whole-number percentages;      *)
(*   - a stored total (the result of round(x, 2)) is an integer of cents.  *)
(* round(x, 2) is modelled as round-half-to-even on the exact value.       *)
(***************************************************************************)
EXTENDS Integers, Sequences, FiniteSets, TLC

VARIABLES
    estimates,        \* table estimate: id -> committed row
    material_items,   \* table material_item, in insertion order
    labor_items,      \* table labor_item, in insertion order
    next_id,          \* next primary key of table estimate (keys are not reused)
    requests,         \* requests in flight: worker -> session state
    last,             \* outcome of the request that completed last
    all_ok,           \* no request that recomputes the totals has failed so far
    session,          \* the keys of the client's Flask session
    now               \* datetime.utcnow(), in days

vars ==
    <<estimates, material_items, labor_items, next_id, requests, last, all_ok,
      session, now>>

-----------------------------------------------------------------------------
(* Bounds of the model *)

MaxEstimates == 2

\* the clock stops at MaxNow days
MaxNow == 91

Workers == {"w1", "w2"}

-----------------------------------------------------------------------------
(* JSON values and nullable columns *)

\* a dict key that is not present
Absent == "<absent>"
\* JSON null / Python None where a string is expected
JsonNull == "<null>"

\* a Text column holding a JSON document, or NULL
NullCol == [isnull |-> TRUE, val |-> <<>>]
JsonCol(v) == [isnull |-> FALSE, val |-> v]

\* a JSON value where a number is expected
Num(n) == [t |-> "num", v |-> n]
NotNum(kind) == [t |-> kind, v |-> 0]

SeqToSet(s) == {s[i] : i \in 1..Len(s)}

-----------------------------------------------------------------------------
(* Amounts *)

AmtFromMills(m) == [w |-> m \div 10, f |-> (m % 10) * 10000]

AmtAdd(a, b) ==
    LET s == a.f + b.f
    IN  [w |-> a.w + b.w + (s \div 100000), f |-> s % 100000]

\* a * (p / 100.0)
AmtPct(a, p) ==
    LET t == a.w * p
        u == (t % 100) * 1000 + ((a.f * p) \div 100)
    IN  [w |-> (t \div 100) + (u \div 100000), f |-> u % 100000]

\* Round2 cutting the digits after the second decimal
Round2Truncating(a) == a.w

\* round(x, 2), in cents
Round2(a) ==
    IF 2 * a.f > 100000 \/ (2 * a.f = 100000 /\ a.w % 2 = 1)
    THEN a.w + 1
    ELSE a.w

-----------------------------------------------------------------------------
(* models.py *)

\* Column defaults of Estimate
DefaultProfitColumn == 15
DefaultContingencyColumn == 10

\* Estimate(name=...) after the flush that inserts it: created_at takes its
\* default, datetime.utcnow
NewEstimate ==
    [ created_at             |-> now,
      areas_json             |-> NullCol,
      detected_bundles_json  |-> NullCol,
      active_bundles_json    |-> NullCol,
      profit_percentage      |-> DefaultProfitColumn,
      contingency_percentage |-> DefaultContingencyColumn,
      subtotal               |-> 0,
      profit_amount          |-> 0,
      contingency_amount     |-> 0,
      grand_total            |-> 0 ]

get_areas(estimate) ==
    IF estimate.areas_json.isnull THEN <<>> ELSE estimate.areas_json.val

get_detected_bundles(estimate) ==
    IF estimate.detected_bundles_json.isnull THEN <<>>
    ELSE estimate.detected_bundles_json.val

get_active_bundles(estimate) ==
    IF estimate.active_bundles_json.isnull THEN <<>>
    ELSE estimate.active_bundles_json.val

set_active_bundles(estimate, bundles) ==
    [estimate EXCEPT !.active_bundles_json = JsonCol(bundles)]

\* MaterialItem.query.filter_by(estimate_id=id).all() and the LaborItem
\* query, over a table
ItemsOf(table, id) == SelectSeq(table, LAMBDA r : r.estimate_id = id)

\* Estimate.is_expired and the cutoff of purge_old_estimates: timedelta(days=90)
RetentionDays == 90

is_expired(estimate) == now - estimate.created_at > RetentionDays

-----------------------------------------------------------------------------
(* auth.py *)

\* session.get('authenticated', False)
is_authenticatedAlways(client_session) == TRUE

is_authenticated(client_session) == "authenticated" \in client_session

-----------------------------------------------------------------------------
(* cost_engine.py *)

PsfExterior == 15
PsfUtility == 25
PsfInterior == 20
DefaultProfit == 15
DefaultContingency == 10

\* str.lower() on the category strings of the model
Lower(s) ==
    CASE s \in {"Exterior", "EXTERIOR", "exterior"} -> "exterior"
      [] s \in {"Utility", "UTILITY", "utility"}    -> "utility"
      [] s \in {"Interior", "INTERIOR", "interior"} -> "interior"
      [] s = "Garage"                               -> "garage"
      [] OTHER                                      -> s

\* x or d : a falsy x (None, 0, 0.0) gives d.  No column read this way is
\* ever NULL: total_cost is assigned by load_csv_data and duplicate_estimate,
\* the percentages get their column default on insert.
PyOr(x, d) == IF x = 0 THEN d ELSE x

\* `not material.bundle`: None and '' are falsy
NoBundle(b) == b = "" \/ b = JsonNull

\* bundle in active_bundles
InList(x, list) == \E i \in 1..Len(list) : list[i] = x

\* area.get('area_ft2', 0)
AreaFt2Of(area) == IF area.area_ft2.t = "absent" THEN Num(0) ELSE area.area_ft2

\* area.get('category', 'Interior')
CategoryOf(area) == IF area.category = Absent THEN "Interior" ELSE area.category

\* area.get('room', 'Unknown')
RoomOf(area) == IF area.room = Absent THEN "Unknown" ELSE area.room

\* CalcPsfRate with the exterior and utility rates swapped
CalcPsfRateSwapped(category) ==
    IF category = "exterior" THEN PsfUtility
    ELSE IF category = "utility" THEN PsfExterior
    ELSE PsfInterior

\* the per-square-foot rate of calculate_estimate_totals, for a lowered category
CalcPsfRate(category) ==
    IF category = "exterior" THEN PsfExterior
    ELSE IF category = "utility" THEN PsfUtility
    ELSE PsfInterior

\* The statements of calculate_estimate_totals that raise on an area record:
\* sum() over a non-number, None.lower(), str * float
CalcAreaRaises(area) ==
    \/ AreaFt2Of(area).t # "num"
    \/ CategoryOf(area) = JsonNull

\* CalcIncludes with the `not material.bundle` test forgotten
CalcIncludesActiveOnly(bundle, active_bundles) ==
    InList(bundle, active_bundles)

\* line 16: the inclusion test of a material
CalcIncludes(bundle, active_bundles) ==
    NoBundle(bundle) \/ InList(bundle, active_bundles)

RECURSIVE CalcMaterialLoop(_, _, _, _)
CalcMaterialLoop(materials, active_bundles, i, material_total) ==
    IF i > Len(materials) THEN material_total
    ELSE IF CalcIncludes(materials[i].bundle, active_bundles)
         THEN CalcMaterialLoop(materials, active_bundles, i + 1,
                               material_total + PyOr(materials[i].total_cost, 0))
         ELSE CalcMaterialLoop(materials, active_bundles, i + 1, material_total)

\* CalcLaborLoop filtering labor the way materials are filtered, with the
\* category in the place of the bundle: only uncategorised labor is summed
RECURSIVE CalcLaborLoopFiltered(_, _, _)
CalcLaborLoopFiltered(labor, i, labor_total) ==
    IF i > Len(labor) THEN labor_total
    ELSE IF NoBundle(labor[i].category)
         THEN CalcLaborLoopFiltered(labor, i + 1,
                                    labor_total + PyOr(labor[i].total_cost, 0))
         ELSE CalcLaborLoopFiltered(labor, i + 1, labor_total)

RECURSIVE CalcLaborLoop(_, _, _)
CalcLaborLoop(labor, i, labor_total) ==
    IF i > Len(labor) THEN labor_total
    ELSE CalcLaborLoop(labor, i + 1, labor_total + PyOr(labor[i].total_cost, 0))

RECURSIVE CalcAreaLoop(_, _, _)
CalcAreaLoop(areas, i, area_cost) ==
    IF i > Len(areas) THEN area_cost
    ELSE CalcAreaLoop(areas, i + 1,
             area_cost + AreaFt2Of(areas[i]).v
                           * CalcPsfRate(Lower(CategoryOf(areas[i]))) * 1000)

\* line 51 and line 55
CalcProfitPercentage(estimate) == PyOr(estimate.profit_percentage, DefaultProfit)
CalcContingencyPercentage(estimate) ==
    PyOr(estimate.contingency_percentage, DefaultContingency)

\* CalcContingency taken on the raw subtotal
CalcContingencyOnSubtotal(subtotal, profit_amount, contingency_percentage) ==
    AmtPct(subtotal, contingency_percentage)

\* line 56
CalcContingency(subtotal, profit_amount, contingency_percentage) ==
    AmtPct(AmtAdd(subtotal, profit_amount), contingency_percentage)

\* CalcStore adding to the stored subtotal instead of replacing it
CalcStoreAccumulating(estimate, subtotal, profit_amount, contingency_amount, grand_total) ==
    [estimate EXCEPT !.subtotal = estimate.subtotal + Round2(subtotal),
                     !.profit_amount = Round2(profit_amount),
                     !.contingency_amount = Round2(contingency_amount),
                     !.grand_total = Round2(grand_total)]

\* CalcStore that also writes the percentage it applied back to the Estimate
CalcStoreWithPercentage(estimate, subtotal, profit_amount, contingency_amount, grand_total) ==
    [estimate EXCEPT !.subtotal = Round2(subtotal),
                     !.profit_amount = Round2(profit_amount),
                     !.contingency_amount = Round2(contingency_amount),
                     !.grand_total = Round2(grand_total),
                     !.profit_percentage = CalcProfitPercentage(estimate)]

\* lines 62-65: the four assignments
CalcStore(estimate, subtotal, profit_amount, contingency_amount, grand_total) ==
    [estimate EXCEPT !.subtotal = Round2(subtotal),
                     !.profit_amount = Round2(profit_amount),
                     !.contingency_amount = Round2(contingency_amount),
                     !.grand_total = Round2(grand_total)]

\* The locals of one run of calculate_estimate_totals and the Estimate object
\* it leaves behind.  raised = TRUE: the except clause re-raised one Exception.
calculate_estimate_totals(estimate, materials, labor) ==
    LET active_bundles == get_active_bundles(estimate)
        areas          == get_areas(estimate)
    IN  IF \E i \in 1..Len(areas) : CalcAreaRaises(areas[i])
        THEN [ raised |-> TRUE, material_total |-> 0, labor_total |-> 0,
               area_cost |-> 0, profit_percentage |-> 0,
               contingency_percentage |-> 0, estimate |-> estimate ]
        ELSE
        LET material_total == CalcMaterialLoop(materials, active_bundles, 1, 0)
            labor_total    == CalcLaborLoop(labor, 1, 0)
            area_cost      == CalcAreaLoop(areas, 1, 0)
            subtotal       == AmtFromMills(material_total + labor_total + area_cost)
            profit_percentage == CalcProfitPercentage(estimate)
            profit_amount  == AmtPct(subtotal, profit_percentage)
            contingency_percentage == CalcContingencyPercentage(estimate)
            contingency_amount ==
                CalcContingency(subtotal, profit_amount, contingency_percentage)
            grand_total ==
                AmtAdd(AmtAdd(subtotal, profit_amount), contingency_amount)
        IN  [ raised |-> FALSE,
              material_total |-> material_total,
              labor_total |-> labor_total,
              area_cost |-> area_cost,
              profit_percentage |-> profit_percentage,
              contingency_percentage |-> contingency_percentage,
              estimate |-> CalcStore(estimate, subtotal, profit_amount,
                                     contingency_amount, grand_total) ]

\* A Python dict in insertion order: a sequence of [key, value] entries
DictHas(d, k) == \E i \in 1..Len(d) : d[i].key = k
DictGet(d, k) == d[CHOOSE i \in 1..Len(d) : d[i].key = k].value
DictSet(d, k, v) ==
    IF DictHas(d, k)
    THEN [i \in 1..Len(d) |-> IF d[i].key = k THEN [key |-> k, value |-> v] ELSE d[i]]
    ELSE Append(d, [key |-> k, value |-> v])

\* lines 95-108: the materials groups and breakdown['totals']['materials']
RECURSIVE BreakdownMaterialLoop(_, _, _, _)
BreakdownMaterialLoop(materials, active_bundles, i, acc) ==
    IF i > Len(materials) THEN acc
    ELSE LET material == materials[i] IN
         IF NoBundle(material.bundle) \/ InList(material.bundle, active_bundles)
         THEN LET bundle == IF NoBundle(material.bundle) THEN "Miscellaneous"
                            ELSE material.bundle
                  group  == IF DictHas(acc.groups, bundle)
                            THEN DictGet(acc.groups, bundle) ELSE <<>>
                  entry  == [ name |-> material.name,
                              quantity |-> material.quantity,
                              unit_cost |-> material.unit_cost,
                              total_cost |-> material.total_cost ]
              IN  BreakdownMaterialLoop(materials, active_bundles, i + 1,
                    [ groups |-> DictSet(acc.groups, bundle, Append(group, entry)),
                      total  |-> acc.total + PyOr(material.total_cost, 0) ])
         ELSE BreakdownMaterialLoop(materials, active_bundles, i + 1, acc)

\* lines 111-123: the labor groups and breakdown['totals']['labor']
RECURSIVE BreakdownLaborLoop(_, _, _)
BreakdownLaborLoop(labor_items_, i, acc) ==
    IF i > Len(labor_items_) THEN acc
    ELSE LET labor    == labor_items_[i]
             category == IF labor.category = "" \/ labor.category = JsonNull
                         THEN "General Labor" ELSE labor.category
             group    == IF DictHas(acc.groups, category)
                         THEN DictGet(acc.groups, category) ELSE <<>>
             entry    == [ task |-> labor.task, hours |-> labor.hours,
                           hourly_rate |-> labor.hourly_rate,
                           total_cost |-> labor.total_cost ]
         IN  BreakdownLaborLoop(labor_items_, i + 1,
               [ groups |-> DictSet(acc.groups, category, Append(group, entry)),
                 total  |-> acc.total + PyOr(labor.total_cost, 0) ])

\* BreakdownPsfRate comparing the category without lower()
BreakdownPsfRateCaseSensitive(category) ==
    IF category = "exterior" THEN PsfExterior
    ELSE IF category = "utility" THEN PsfUtility
    ELSE PsfInterior

\* lines 133-138
BreakdownPsfRate(category) ==
    IF Lower(category) = "exterior" THEN PsfExterior
    ELSE IF Lower(category) = "utility" THEN PsfUtility
    ELSE PsfInterior

\* The statements of get_cost_breakdown that raise on an area record:
\* None.lower() (line 133) and a non-number times the rate (line 140)
BreakdownAreaRaises(area) ==
    \/ CategoryOf(area) = JsonNull
    \/ AreaFt2Of(area).t # "num"

\* lines 127-147: breakdown['area_costs'] and breakdown['totals']['area_costs']
RECURSIVE BreakdownAreaLoop(_, _, _)
BreakdownAreaLoop(areas, i, acc) ==
    IF i > Len(areas) THEN acc
    ELSE LET area      == areas[i]
             area_ft2  == AreaFt2Of(area).v
             category  == CategoryOf(area)
             room      == RoomOf(area)
             psf_rate  == BreakdownPsfRate(category)
             area_cost == area_ft2 * psf_rate * 1000
         IN  BreakdownAreaLoop(areas, i + 1,
               [ entries |-> DictSet(acc.entries, room,
                                [ area_ft2 |-> area_ft2, psf_rate |-> psf_rate,
                                  total_cost |-> area_cost, category |-> category ]),
                 total   |-> acc.total + area_cost ])

NoReport ==
    [ raised |-> FALSE, materials |-> <<>>, labor |-> <<>>, area_costs |-> <<>>,
      totals |-> [ materials |-> 0, labor |-> 0, area_costs |-> 0, subtotal |-> 0,
                   profit |-> 0, contingency |-> 0, grand_total |-> 0 ] ]

\* The report of get_cost_breakdown, or raised = TRUE when it raises
get_cost_breakdown(estimate, materials, labor) ==
    LET active_bundles == get_active_bundles(estimate)
        areas == get_areas(estimate)
    IN  IF \E i \in 1..Len(areas) : BreakdownAreaRaises(areas[i])
        THEN [NoReport EXCEPT !.raised = TRUE]
        ELSE
        LET m == BreakdownMaterialLoop(materials, active_bundles, 1,
                                       [groups |-> <<>>, total |-> 0])
            l == BreakdownLaborLoop(labor, 1, [groups |-> <<>>, total |-> 0])
            a == BreakdownAreaLoop(areas, 1, [entries |-> <<>>, total |-> 0])
        IN  [ raised |-> FALSE,
              materials |-> m.groups,
              labor |-> l.groups,
              area_costs |-> a.entries,
              totals |-> [ materials |-> m.total,
                           labor |-> l.total,
                           area_costs |-> a.total,
                           subtotal |-> estimate.subtotal,
                           profit |-> estimate.profit_amount,
                           contingency |-> estimate.contingency_amount,
                           grand_total |-> estimate.grand_total ] ]

-----------------------------------------------------------------------------
(* Inputs of the requests *)

\* What analyze_blueprint may return: the "areas" of the model's JSON answer
AreasKitchen ==
    << [room |-> "Kitchen", category |-> "Interior", area_ft2 |-> Num(50)] >>
AreasMixed ==
    << [room |-> "Porch",  category |-> "EXTERIOR", area_ft2 |-> Num(10)],
       [room |-> "Porch",  category |-> "Exterior", area_ft2 |-> Num(2)],
       [room |-> "Boiler", category |-> "Utility",  area_ft2 |-> Num(10)],
       [room |-> Absent,   category |-> Absent,     area_ft2 |-> Num(10)],
       [room |-> "Garage", category |-> "Garage",   area_ft2 |-> NotNum("absent")] >>
AreasMalformed ==
    << [room |-> "Kitchen", category |-> JsonNull, area_ft2 |-> Num(100)],
       [room |-> "Attic", category |-> "Interior", area_ft2 |-> NotNum("str")] >>

\* The uploads of one create_estimate request and the answers of the two
\* services: rows of the materials and labor CSV files (costs in mills) and
\* the bundle names detect_csv_schema reports for each file
CreateForms ==
    { [ areas     |-> AreasKitchen,
        materials |-> << [name |-> "Cabinets", unit_cost |-> 500000, quantity |-> 1,
                          bundle |-> "Kitchen"],
                         [name |-> "Paint", unit_cost |-> 100000, quantity |-> 2,
                          bundle |-> ""] >>,
        labor     |-> << [task |-> "Install", hours |-> 10, hourly_rate |-> 30000,
                          category |-> "Carpentry"] >>,
        materials_bundles |-> << "Kitchen" >>,
        labor_bundles     |-> << >> ],
      [ areas     |-> AreasMixed,
        materials |-> << [name |-> "Sealant", unit_cost |-> 333, quantity |-> 1,
                          bundle |-> "Kitchen"],
                         [name |-> "Tiles", unit_cost |-> 185000, quantity |-> 2,
                          bundle |-> ""] >>,
        labor     |-> << >>,
        materials_bundles |-> << >>,
        labor_bundles     |-> << >> ],
      [ areas     |-> AreasMalformed,
        materials |-> << >>,
        labor     |-> << [task |-> "Wiring", hours |-> 3, hourly_rate |-> 12345,
                          category |-> ""] >>,
        materials_bundles |-> << >>,
        labor_bundles     |-> << "Kitchen" >> ] }

\* Where a create_estimate request may fail in a service call
CreateFailures == {"none", "blueprint", "materials_schema", "labor_schema"}

\* bundle_name of a toggle_bundle form
ToggleForms == {"Kitchen"}

\* profit_percentage and contingency_percentage of an update_settings form
SettingsForms ==
    { [profit_percentage |-> Num(0), contingency_percentage |-> Num(150)],
      [profit_percentage |-> Num(-5), contingency_percentage |-> Num(150)],
      [profit_percentage |-> NotNum("absent"),
       contingency_percentage |-> NotNum("absent")],
      [profit_percentage |-> Num(20),    contingency_percentage |-> NotNum("str")] }

-----------------------------------------------------------------------------
(* The state *)

Idle == [pc |-> "idle"]

NoCalc ==
    [ called |-> FALSE, raised |-> FALSE, material_total |-> 0, labor_total |-> 0,
      area_cost |-> 0, profit_percentage |-> 0, contingency_percentage |-> 0 ]

\* what a response keeps of a run of calculate_estimate_totals: its locals
CalcLocals(result) ==
    [ called |-> TRUE, raised |-> result.raised,
      material_total |-> result.material_total,
      labor_total |-> result.labor_total,
      area_cost |-> result.area_cost,
      profit_percentage |-> result.profit_percentage,
      contingency_percentage |-> result.contingency_percentage ]

Response(op, id, status, calc, report) ==
    [op |-> op, id |-> id, status |-> status, calc |-> calc, report |-> report]

Init ==
    /\ estimates = << >>
    /\ material_items = << >>
    /\ labor_items = << >>
    /\ next_id = 1
    /\ requests = [w \in Workers |-> Idle]
    /\ last = Response("none", 0, "ok", NoCalc, NoReport)
    /\ all_ok = TRUE
    /\ session = {}
    /\ now = 0

Ids == DOMAIN estimates

\* the table with row id inserted or replaced
PutRow(table, id, row) ==
    [i \in DOMAIN table \cup {id} |-> IF i = id THEN row ELSE table[i]]

\* all orders of a set: list(set(...)) has no defined order
ListsOf(S) == {l \in [1..Cardinality(S) -> S] : SeqToSet(l) = S}

-----------------------------------------------------------------------------
(* routes.py *)

\* load_csv_data: one MaterialItem per row of the materials file
RECURSIVE LoadMaterials(_, _, _)
LoadMaterials(rows, id, i) ==
    IF i > Len(rows) THEN << >>
    ELSE << [ estimate_id |-> id, name |-> rows[i].name,
              unit_cost |-> rows[i].unit_cost, quantity |-> rows[i].quantity,
              total_cost |-> rows[i].unit_cost * rows[i].quantity,
              bundle |-> rows[i].bundle ] >> \o LoadMaterials(rows, id, i + 1)

\* load_csv_data: one LaborItem per row of the labor file
RECURSIVE LoadLabor(_, _, _)
LoadLabor(rows, id, i) ==
    IF i > Len(rows) THEN << >>
    ELSE << [ estimate_id |-> id, task |-> rows[i].task,
              hours |-> rows[i].hours, hourly_rate |-> rows[i].hourly_rate,
              total_cost |-> rows[i].hours * rows[i].hourly_rate,
              category |-> rows[i].category ] >> \o LoadLabor(rows, id, i + 1)

\* create_estimate.  Every successful service call commits the session
\* (update_spend_tracking), so the Estimate inserted by the flush of line 81
\* is committed from the first successful call on; a later failure rolls
\* back only what was changed after the last commit.
CreateEstimate(form, failure) ==
    /\ is_authenticated(session)
    /\ next_id <= MaxEstimates
    /\ \E all_bundles \in ListsOf(SeqToSet(form.materials_bundles)
                                   \cup SeqToSet(form.labor_bundles)) :
       LET id        == next_id
           analyzed  == [NewEstimate EXCEPT !.areas_json = JsonCol(form.areas)]
           estimate  == [analyzed EXCEPT
                            !.detected_bundles_json = JsonCol(all_bundles),
                            !.active_bundles_json = JsonCol(all_bundles)]
           materials == LoadMaterials(form.materials, id, 1)
           labor     == LoadLabor(form.labor, id, 1)
           calc      == calculate_estimate_totals(estimate, materials, labor)
       IN  CASE failure = "blueprint" ->
                  /\ UNCHANGED <<estimates, material_items, labor_items, next_id>>
                  /\ last' = Response("create", id, "error", NoCalc, NoReport)
                  /\ all_ok' = FALSE
             [] failure = "materials_schema" ->
                  /\ estimates' = PutRow(estimates, id, NewEstimate)
                  /\ next_id' = next_id + 1
                  /\ UNCHANGED <<material_items, labor_items>>
                  /\ last' = Response("create", id, "error", NoCalc, NoReport)
                  /\ all_ok' = FALSE
             [] failure = "labor_schema" ->
                  /\ estimates' = PutRow(estimates, id, analyzed)
                  /\ next_id' = next_id + 1
                  /\ UNCHANGED <<material_items, labor_items>>
                  /\ last' = Response("create", id, "error", NoCalc, NoReport)
                  /\ all_ok' = FALSE
             [] failure = "none" /\ calc.raised ->
                  /\ estimates' = PutRow(estimates, id, analyzed)
                  /\ next_id' = next_id + 1
                  /\ UNCHANGED <<material_items, labor_items>>
                  /\ last' = Response("create", id, "error", CalcLocals(calc), NoReport)
                  /\ all_ok' = FALSE
             [] OTHER ->
                  /\ estimates' = PutRow(estimates, id, calc.estimate)
                  /\ material_items' = material_items \o materials
                  /\ labor_items' = labor_items \o labor
                  /\ next_id' = next_id + 1
                  /\ last' = Response("create", id, "ok", CalcLocals(calc), NoReport)
                  /\ UNCHANGED all_ok
    /\ UNCHANGED <<requests, session, now>>

\* ToggleActive that appends the name whether or not the list holds it
ToggleActiveAppends(estimate, bundle_name) ==
    set_active_bundles(estimate, Append(get_active_bundles(estimate), bundle_name))

\* lines 194-201: the estimate object after the toggle
ToggleActive(estimate, bundle_name) ==
    LET active_bundles == get_active_bundles(estimate)
        toggled ==
            IF InList(bundle_name, active_bundles)
            THEN SelectSeq(active_bundles, LAMBDA b : b # bundle_name)
            ELSE Append(active_bundles, bundle_name)
    IN  set_active_bundles(estimate, toggled)

\* ToggleBundle committing the new list without recomputing the totals
ToggleBundleNoRecalc(id, bundle_name) ==
    /\ is_authenticated(session)
    /\ id \in Ids
    /\ estimates' = [estimates EXCEPT ![id] = ToggleActive(@, bundle_name)]
    /\ last' = Response("toggle", id, "ok", NoCalc, NoReport)
    /\ UNCHANGED <<material_items, labor_items, next_id, requests, all_ok,
                   session, now>>

\* toggle_bundle, served alone
ToggleBundle(id, bundle_name) ==
    /\ is_authenticated(session)
    /\ id \in Ids
    /\ LET calc == calculate_estimate_totals(ToggleActive(estimates[id], bundle_name),
                           ItemsOf(material_items, id), ItemsOf(labor_items, id))
       IN  IF calc.raised
           THEN /\ last' = Response("toggle", id, "error", CalcLocals(calc), NoReport)
                /\ all_ok' = FALSE
                /\ UNCHANGED estimates
           ELSE /\ estimates' = [estimates EXCEPT ![id] = calc.estimate]
                /\ last' = Response("toggle", id, "ok", CalcLocals(calc), NoReport)
                /\ UNCHANGED all_ok
    /\ UNCHANGED <<material_items, labor_items, next_id, requests, session, now>>

SettingsDefaultProfit == 15
SettingsDefaultContingency == 10
ClampLow == 0
ClampHigh == 100

\* request.form.get(name, default)
FormOr(value, default) == IF value.t = "absent" THEN Num(default) ELSE value

Min(a, b) == IF b < a THEN b ELSE a
Max(a, b) == IF b > a THEN b ELSE a

\* Clamp without the upper limit
ClampNoUpperLimit(x) == Max(ClampLow, x)

\* max(0, min(100, x))
Clamp(x) == Max(ClampLow, Min(ClampHigh, x))

\* lines 217-218: the estimate object with the submitted percentages
ApplySettings(estimate, profit_percentage, contingency_percentage) ==
    [estimate EXCEPT !.profit_percentage = Clamp(profit_percentage),
                     !.contingency_percentage = Clamp(contingency_percentage)]

\* update_estimate_settings, served alone
UpdateSettings(id, form) ==
    /\ is_authenticated(session)
    /\ id \in Ids
    /\ LET profit_percentage == FormOr(form.profit_percentage, SettingsDefaultProfit)
           contingency_percentage ==
               FormOr(form.contingency_percentage, SettingsDefaultContingency)
       IN  IF profit_percentage.t # "num" \/ contingency_percentage.t # "num"
           THEN \* float() raised ValueError
                /\ last' = Response("settings", id, "invalid", NoCalc, NoReport)
                /\ UNCHANGED <<estimates, all_ok>>
           ELSE LET calc == calculate_estimate_totals(ApplySettings(estimates[id], profit_percentage.v,
                                                  contingency_percentage.v),
                                    ItemsOf(material_items, id),
                                    ItemsOf(labor_items, id))
                IN  IF calc.raised
                    THEN /\ last' = Response("settings", id, "error", CalcLocals(calc), NoReport)
                         /\ all_ok' = FALSE
                         /\ UNCHANGED estimates
                    ELSE /\ estimates' = [estimates EXCEPT ![id] = calc.estimate]
                         /\ last' = Response("settings", id, "ok", CalcLocals(calc), NoReport)
                         /\ UNCHANGED all_ok
    /\ UNCHANGED <<material_items, labor_items, next_id, requests, session, now>>

\* the copies of an item list for estimate id
Recopy(items, id) == [i \in 1..Len(items) |-> [items[i] EXCEPT !.estimate_id = id]]

\* duplicate_estimate
DuplicateEstimate(original_id) ==
    /\ is_authenticated(session)
    /\ original_id \in Ids
    /\ next_id <= MaxEstimates
    /\ LET id        == next_id
           original  == estimates[original_id]
           duplicate ==
               [NewEstimate EXCEPT
                   !.areas_json = original.areas_json,
                   !.detected_bundles_json = original.detected_bundles_json,
                   !.active_bundles_json = original.active_bundles_json,
                   !.profit_percentage = original.profit_percentage,
                   !.contingency_percentage = original.contingency_percentage]
           materials == Recopy(ItemsOf(material_items, original_id), id)
           labor     == Recopy(ItemsOf(labor_items, original_id), id)
           calc      == calculate_estimate_totals(duplicate, materials, labor)
       IN  IF calc.raised
           THEN /\ last' = Response("duplicate", id, "error", CalcLocals(calc), NoReport)
                /\ all_ok' = FALSE
                /\ UNCHANGED <<estimates, material_items, labor_items, next_id>>
           ELSE /\ estimates' = PutRow(estimates, id, calc.estimate)
                /\ material_items' = material_items \o materials
                /\ labor_items' = labor_items \o labor
                /\ next_id' = next_id + 1
                /\ last' = Response("duplicate", id, "ok", CalcLocals(calc), NoReport)
                /\ UNCHANGED all_ok
    /\ UNCHANGED <<requests, session, now>>

\* download_proposal: generate_proposal_pdf builds the report with
\* get_cost_breakdown; when that raises, the handler answers with an error
DownloadProposal(id) ==
    /\ is_authenticated(session)
    /\ id \in Ids
    /\ LET report == get_cost_breakdown(estimates[id], ItemsOf(material_items, id),
                                        ItemsOf(labor_items, id))
       IN  last' = Response("download", id, IF report.raised THEN "error" ELSE "ok",
                            NoCalc, report)
    /\ UNCHANGED <<estimates, material_items, labor_items, next_id, requests, all_ok,
                   session, now>>

\* db.session.commit() of a request that loaded the row as `loaded` and
\* changed it to `current`: the UPDATE sets exactly the columns whose value
\* differs from the loaded one, on whatever the row holds by then
WriteBack(row, loaded, current) ==
    [col \in DOMAIN row |-> IF current[col] # loaded[col] THEN current[col] ELSE row[col]]

\* line 191 of a toggle_bundle request served by worker w, concurrently with
\* the other worker: the request loads the Estimate into its own session
BeginToggle(w, id, bundle_name) ==
    /\ is_authenticated(session)
    /\ requests[w].pc = "idle"
    /\ id \in Ids
    /\ requests' = [requests EXCEPT ![w] =
           [pc |-> "toggle", id |-> id, loaded |-> estimates[id],
            bundle_name |-> bundle_name]]
    /\ UNCHANGED <<estimates, material_items, labor_items, next_id, last, all_ok,
                   session, now>>

\* lines 192-206 of that request
FinishToggle(w) ==
    /\ requests[w].pc = "toggle"
    /\ LET id   == requests[w].id
           calc == calculate_estimate_totals(
                       ToggleActive(requests[w].loaded, requests[w].bundle_name),
                       ItemsOf(material_items, id), ItemsOf(labor_items, id))
       IN  IF calc.raised
           THEN /\ last' = Response("toggle", id, "error", CalcLocals(calc), NoReport)
                /\ all_ok' = FALSE
                /\ UNCHANGED estimates
           ELSE /\ estimates' = [estimates EXCEPT ![id] =
                                    WriteBack(@, requests[w].loaded, calc.estimate)]
                /\ last' = Response("toggle", id, "ok", CalcLocals(calc), NoReport)
                /\ UNCHANGED all_ok
    /\ requests' = [requests EXCEPT ![w] = Idle]
    /\ UNCHANGED <<material_items, labor_items, next_id, session, now>>

\* line 211 of an update_estimate_settings request served by worker w with
\* numeric percentages
BeginSettings(w, id, form) ==
    /\ is_authenticated(session)
    /\ requests[w].pc = "idle"
    /\ id \in Ids
    /\ form.profit_percentage.t = "num"
    /\ form.contingency_percentage.t = "num"
    /\ requests' = [requests EXCEPT ![w] =
           [pc |-> "settings", id |-> id, loaded |-> estimates[id], form |-> form]]
    /\ UNCHANGED <<estimates, material_items, labor_items, next_id, last, all_ok,
                   session, now>>

\* lines 213-227 of that request
FinishSettings(w) ==
    /\ requests[w].pc = "settings"
    /\ LET id   == requests[w].id
           calc == calculate_estimate_totals(
                       ApplySettings(requests[w].loaded,
                                     requests[w].form.profit_percentage.v,
                                     requests[w].form.contingency_percentage.v),
                       ItemsOf(material_items, id), ItemsOf(labor_items, id))
       IN  IF calc.raised
           THEN /\ last' = Response("settings", id, "error", CalcLocals(calc), NoReport)
                /\ all_ok' = FALSE
                /\ UNCHANGED estimates
           ELSE /\ estimates' = [estimates EXCEPT ![id] =
                                    WriteBack(@, requests[w].loaded, calc.estimate)]
                /\ last' = Response("settings", id, "ok", CalcLocals(calc), NoReport)
                /\ UNCHANGED all_ok
    /\ requests' = [requests EXCEPT ![w] = Idle]
    /\ UNCHANGED <<material_items, labor_items, next_id, session, now>>

\* the table without the rows of ids
DropRows(table, ids) == [i \in (DOMAIN table) \ ids |-> table[i]]

\* the Estimate has a MaterialItem or a LaborItem
HasItems(id) ==
    ItemsOf(material_items, id) # << >> \/ ItemsOf(labor_items, id) # << >>

\* The flush of db.session.delete(estimate) for each id of ids, in one
\* transaction.  The relationships Estimate.materials and Estimate.labor are
\* backrefs without a delete cascade, so the flush detaches the children with
\* UPDATE ... SET estimate_id = NULL; estimate_id is NOT NULL, the database
\* refuses the UPDATE and the commit raises IntegrityError.
DeleteRaises(ids) == \E id \in ids : HasItems(id)

\* delete_estimate.  An IntegrityError of the commit is not caught: the
\* request ends in the 500 handler and the session is rolled back.
DeleteEstimate(id) ==
    /\ is_authenticated(session)
    /\ id \in Ids
    /\ IF DeleteRaises({id})
       THEN /\ last' = Response("delete", id, "error", NoCalc, NoReport)
            /\ UNCHANGED estimates
       ELSE /\ estimates' = DropRows(estimates, {id})
            /\ last' = Response("delete", id, "ok", NoCalc, NoReport)
    /\ UNCHANGED <<material_items, labor_items, next_id, requests, all_ok,
                   session, now>>

\* purge_old_estimates: the table estimate after the call.  The deletes of all
\* old estimates are committed together; when the commit raises, the except
\* clause rolls all of them back.
purge_old_estimates ==
    LET cutoff_date   == now - RetentionDays
        old_estimates == {id \in Ids : estimates[id].created_at < cutoff_date}
    IN  IF old_estimates = {} \/ DeleteRaises(old_estimates)
        THEN estimates
        ELSE DropRows(estimates, old_estimates)

\* index
Index ==
    /\ IF ~is_authenticated(session)
       THEN /\ last' = Response("index", 0, "login", NoCalc, NoReport)
            /\ UNCHANGED estimates
       ELSE /\ estimates' = purge_old_estimates
            /\ last' = Response("index", 0, "ok", NoCalc, NoReport)
    /\ UNCHANGED <<material_items, labor_items, next_id, requests, all_ok,
                   session, now>>

\* os.environ.get('ADMIN_PASSWORD', 'admin123')
admin_password == "admin123"

\* the password field of a login form
LoginForms == {admin_password, "letmein"}

\* login, POST
Login(password) ==
    /\ IF password = admin_password
       THEN /\ session' = session \cup {"authenticated"}
            /\ last' = Response("login", 0, "ok", NoCalc, NoReport)
       ELSE /\ last' = Response("login", 0, "invalid", NoCalc, NoReport)
            /\ UNCHANGED session
    /\ UNCHANGED <<estimates, material_items, labor_items, next_id, requests,
                   all_ok, now>>

\* logout
Logout ==
    /\ session' = session \ {"authenticated"}
    /\ last' = Response("logout", 0, "ok", NoCalc, NoReport)
    /\ UNCHANGED <<estimates, material_items, labor_items, next_id, requests,
                   all_ok, now>>

\* login_required: a request to a protected route without an authenticated
\* session is redirected to login before the handler is entered
LoginRequired ==
    /\ ~is_authenticated(session)
    /\ last' = Response("protected", 0, "redirect", NoCalc, NoReport)
    /\ UNCHANGED <<estimates, material_items, labor_items, next_id, requests,
                   all_ok, session, now>>

\* view_estimate and history: they render what is stored
ViewEstimate(id) ==
    /\ is_authenticated(session)
    /\ id \in Ids
    /\ last' = Response("view", id, "ok", NoCalc, NoReport)
    /\ UNCHANGED <<estimates, material_items, labor_items, next_id, requests,
                   all_ok, session, now>>

History ==
    /\ is_authenticated(session)
    /\ last' = Response("history", 0, "ok", NoCalc, NoReport)
    /\ UNCHANGED <<estimates, material_items, labor_items, next_id, requests,
                   all_ok, session, now>>

\* time passes between two requests: 45 or 46 days, so that an estimate is
\* seen 90 and 91 days after its creation
TickDays == {45, 46}

\* the response seen last is then no longer the latest event
Tick(days) ==
    /\ now + days <= MaxNow
    /\ now' = now + days
    /\ last' = Response("none", 0, "ok", NoCalc, NoReport)
    /\ UNCHANGED <<estimates, material_items, labor_items, next_id, requests,
                   all_ok, session>>

\* the first create_estimate request, with both services answering
CreateFirst(form) ==
    /\ next_id = 1
    /\ CreateEstimate(form, "none")

Next ==
    \/ \E form \in CreateForms, failure \in CreateFailures :
           CreateEstimate(form, failure)
    \/ \E id \in Ids, bundle_name \in ToggleForms : ToggleBundle(id, bundle_name)
    \/ \E id \in Ids, form \in SettingsForms : UpdateSettings(id, form)
    \/ \E id \in Ids : DuplicateEstimate(id)
    \/ \E id \in Ids : DownloadProposal(id)
    \/ \E id \in Ids : DeleteEstimate(id)
    \/ Login(admin_password)

Spec == Init /\ [][Next]_vars

\* Requests on the stored estimates served by two workers at once
NextConcurrent ==
    \/ Login(admin_password)
    \/ \E form \in CreateForms : CreateFirst(form)
    \/ \E w \in Workers, id \in Ids, bundle_name \in ToggleForms :
           BeginToggle(w, id, bundle_name)
    \/ \E w \in Workers : FinishToggle(w)
    \/ \E w \in Workers, id \in Ids, form \in SettingsForms :
           BeginSettings(w, id, form)
    \/ \E w \in Workers : FinishSettings(w)

SpecConcurrent == Init /\ [][NextConcurrent]_vars

\* bundle_name of the toggle_bundle forms two workers submit at once
RaceToggleForms == {"Kitchen", "Bath"}

\* toggle_bundle requests for two bundle names served by two workers at once
NextToggleRace ==
    \/ Login(admin_password)
    \/ \E form \in CreateForms : CreateFirst(form)
    \/ \E w \in Workers, id \in Ids, bundle_name \in RaceToggleForms :
           BeginToggle(w, id, bundle_name)
    \/ \E w \in Workers : FinishToggle(w)

SpecToggleRace == Init /\ [][NextToggleRace]_vars

\* The session gate: every route, on the estimates of one create_estimate
\* request
NextSession ==
    \/ \E password \in LoginForms : Login(password)
    \/ Logout
    \/ LoginRequired
    \/ Index
    \/ \E form \in CreateForms : CreateFirst(form)
    \/ \E id \in Ids, bundle_name \in ToggleForms : ToggleBundle(id, bundle_name)
    \/ \E id \in Ids, form \in SettingsForms : UpdateSettings(id, form)
    \/ \E id \in Ids : DuplicateEstimate(id)
    \/ \E id \in Ids : DownloadProposal(id)
    \/ \E id \in Ids : DeleteEstimate(id)
    \/ \E id \in Ids : ViewEstimate(id)
    \/ History

SpecSession == Init /\ [][NextSession]_vars

\* Retention: estimates are created, time passes, and they are deleted on
\* request or purged by a visit to the index route
NextRetention ==
    \/ Login(admin_password)
    \/ \E form \in CreateForms, failure \in CreateFailures :
           CreateEstimate(form, failure)
    \/ \E id \in Ids : DeleteEstimate(id)
    \/ Index
    \/ \E days \in TickDays : Tick(days)

SpecRetention == Init /\ [][NextRetention]_vars

-----------------------------------------------------------------------------
(* Properties *)

Totals(estimate) ==
    << estimate.subtotal, estimate.profit_amount,
       estimate.contingency_amount, estimate.grand_total >>

\* calculate_estimate_totals on the committed row and line items of id
Recomputed(id) ==
    calculate_estimate_totals(estimates[id], ItemsOf(material_items, id),
                              ItemsOf(labor_items, id))

\* the stored totals of id are what a recomputation yields now
Fresh(id) ==
    /\ ~Recomputed(id).raised
    /\ Totals(Recomputed(id).estimate) = Totals(estimates[id])

\* the last request ran calculate_estimate_totals to its end and committed
Calculated ==
    /\ last.status = "ok"
    /\ last.calc.called
    /\ ~last.calc.raised
    /\ last.id \in Ids

RECURSIVE SumCosts(_, _)
SumCosts(items, indices) ==
    IF indices = {} THEN 0
    ELSE LET i == CHOOSE j \in indices : TRUE
         IN  items[i].total_cost + SumCosts(items, indices \ {i})

\* C1: while every request served so far (one at a time) has succeeded, the
\* stored subtotal, profit_amount, contingency_amount and grand_total of every
\* committed Estimate equal what calculate_estimate_totals yields from its
\* committed line items, area records, active bundles and percentages.
C1_StoredTotalsFresh ==
    all_ok => \A id \in Ids : Fresh(id)

\* an estimate created, toggled off, given new settings and then duplicated
C1_Witness ==
    /\ all_ok
    /\ Ids = {1, 2}
    /\ last.op = "duplicate"
    /\ last.status = "ok"
    /\ get_active_bundles(estimates[2]) = << >>
    /\ estimates[2].profit_percentage = 0
    /\ estimates[2].subtotal = 150000

\* C2: the run uses the Estimate's own percentage whenever it is set, 0
\* included: a profit percentage of 0 gives profit_amount 0 and a contingency
\* percentage of 0 gives contingency_amount 0.
C2_SetPercentageIsUsed ==
    Calculated =>
        LET estimate == estimates[last.id]
        IN  /\ last.calc.profit_percentage = estimate.profit_percentage
            /\ last.calc.contingency_percentage = estimate.contingency_percentage
            /\ estimate.profit_percentage = 0 => estimate.profit_amount = 0
            /\ estimate.contingency_percentage = 0 => estimate.contingency_amount = 0

\* C3: the material total of a run is the sum of total_cost over exactly the
\* materials whose bundle is empty or absent, or is in the active list.
C3_MaterialTotal ==
    Calculated =>
        LET materials == ItemsOf(material_items, last.id)
            active    == SeqToSet(get_active_bundles(estimates[last.id]))
            included  == {i \in 1..Len(materials) :
                             materials[i].bundle \in {"", JsonNull} \cup active}
        IN  last.calc.material_total = SumCosts(materials, included)

\* a run that keeps a material without bundle and drops one whose bundle is
\* not active, with an empty active list
C3_Witness ==
    /\ Calculated
    /\ get_active_bundles(estimates[last.id]) = << >>
    /\ \E i, j \in 1..Len(ItemsOf(material_items, last.id)) :
          /\ ItemsOf(material_items, last.id)[i].bundle = ""
          /\ ItemsOf(material_items, last.id)[j].bundle = "Kitchen"
    /\ last.calc.material_total = 200000

\* C4: with p and c the percentages a run applies, the stored profit is
\* subtotal * p/100, the stored contingency is (subtotal + profit) * c/100 on
\* the unrounded profit, and the stored grand total is their sum with the
\* subtotal, each rounded to cents; a subtotal of 1000.00 with p = 15 and
\* c = 10 gives 150.00, 115.00 and 1265.00.
C4_ContingencyOnPostProfit ==
    Calculated =>
        LET estimate == estimates[last.id]
            mills    == last.calc.material_total + last.calc.labor_total
                          + last.calc.area_cost
            subtotal == AmtFromMills(mills)
            p        == last.calc.profit_percentage
            c        == last.calc.contingency_percentage
            profit   == AmtPct(subtotal, p)
            contingency == AmtPct(AmtAdd(subtotal, profit), c)
        IN  /\ estimate.profit_amount = Round2(profit)
            /\ estimate.contingency_amount = Round2(contingency)
            /\ estimate.grand_total =
                   Round2(AmtAdd(AmtAdd(subtotal, profit), contingency))
            /\ 2 * (estimate.profit_amount * 1000 - mills * p) \in -1000..1000
            /\ (mills = 1000000 /\ p = 15 /\ c = 10) =>
                   /\ estimate.profit_amount = 15000
                   /\ estimate.contingency_amount = 11500
                   /\ estimate.grand_total = 126500

\* a run on a subtotal of 1000.00 with the default percentages
C4_Witness ==
    /\ Calculated
    /\ last.calc.material_total + last.calc.labor_total + last.calc.area_cost = 1000000
    /\ last.calc.profit_percentage = 15
    /\ last.calc.contingency_percentage = 10
    /\ estimates[last.id].grand_total = 126500

\* the rate the spec gives a category, whatever its casing
ExpectedRate(category) ==
    IF category \in {"exterior", "Exterior", "EXTERIOR"} THEN 15
    ELSE IF category \in {"utility", "Utility", "UTILITY"} THEN 25
    ELSE 20

RECURSIVE ExpectedAreaCost(_, _)
ExpectedAreaCost(areas, indices) ==
    IF indices = {} THEN 0
    ELSE LET i == CHOOSE j \in indices : TRUE
             area_ft2 == IF areas[i].area_ft2.t = "num" THEN areas[i].area_ft2.v ELSE 0
         IN  area_ft2 * ExpectedRate(areas[i].category) * 1000
               + ExpectedAreaCost(areas, indices \ {i})

\* C5: the area cost of a run is the sum over the area records of area_ft2
\* times 15 for an 'exterior' category, 25 for 'utility' and 20 for any other
\* or absent category, compared case-insensitively; it is 0 without records.
C5_AreaRateByCategory ==
    Calculated =>
        LET areas == get_areas(estimates[last.id])
        IN  /\ last.calc.area_cost = ExpectedAreaCost(areas, 1..Len(areas))
            /\ Len(areas) = 0 => last.calc.area_cost = 0

\* a run over upper-case, capitalised, utility, absent and unknown categories
C5_Witness ==
    /\ Calculated
    /\ get_areas(estimates[last.id]) = AreasMixed
    /\ last.calc.area_cost = 630000

\* C6: the materials, labor and area_costs totals of a report equal the
\* material total, labor total and area cost calculate_estimate_totals
\* computes from the same Estimate and line items.
C6_BreakdownMatchesCalc ==
    (last.op = "download" /\ last.status = "ok") =>
        LET calc == Recomputed(last.id)
        IN  /\ ~calc.raised
            /\ last.report.totals.materials = calc.material_total
            /\ last.report.totals.labor = calc.labor_total
            /\ last.report.totals.area_costs = calc.area_cost

\* a report over mixed-case categories and an active bundle
C6_Witness ==
    /\ last.op = "download"
    /\ last.status = "ok"
    /\ get_areas(estimates[last.id]) = AreasMixed
    /\ last.report.totals.materials = 370333
    /\ last.report.totals.area_costs = 630000

\* C7: get_cost_breakdown returns a report for every stored Estimate, also
\* one whose area records are malformed.
C7_BreakdownNeverRaises ==
    last.op = "download" => ~last.report.raised

\* the percentages and active lists a row of the model can hold
StoredPercentages ==
    {DefaultProfitColumn, DefaultContingencyColumn}
        \cup {Clamp(form.profit_percentage.v) : form \in SettingsForms}
        \cup {Clamp(form.contingency_percentage.v) : form \in SettingsForms}
StoredActiveLists ==
    {NullCol} \cup {JsonCol(l) : l \in UNION {ListsOf(S) : S \in SUBSET ToggleForms}}

\* C8: in every committed state the four computed fields of an Estimate are
\* either untouched (0) or the four results of one run of
\* calculate_estimate_totals: never some fields of one run next to fields of
\* another.
C8_FourFieldsFromOneRun ==
    \A id \in Ids :
        \/ Totals(estimates[id]) = <<0, 0, 0, 0>>
        \/ \E active \in StoredActiveLists, p \in StoredPercentages,
              c \in StoredPercentages :
              LET run == calculate_estimate_totals(
                             [estimates[id] EXCEPT !.active_bundles_json = active,
                                                   !.profit_percentage = p,
                                                   !.contingency_percentage = c],
                             ItemsOf(material_items, id), ItemsOf(labor_items, id))
              IN  ~run.raised /\ Totals(run.estimate) = Totals(estimates[id])

\* C8, the failing run: a request whose run of calculate_estimate_totals raised
\* leaves every committed total as it was.
C8_FailedRunChangesNothing ==
    [][(last'.calc.called /\ last'.calc.raised) =>
          \A id \in Ids : id \in DOMAIN estimates'
                            /\ Totals(estimates'[id]) = Totals(estimates[id])]_vars

\* C9: running calculate_estimate_totals again on the Estimate it has just
\* updated, with the same line items, stores the same four totals.
C9_Idempotent ==
    \A id \in Ids :
        LET first  == Recomputed(id)
            second == calculate_estimate_totals(first.estimate,
                          ItemsOf(material_items, id), ItemsOf(labor_items, id))
        IN  ~first.raised =>
                /\ ~second.raised
                /\ Totals(second.estimate) = Totals(first.estimate)

\* an estimate with non-zero totals stored by a run
C9_Witness ==
    /\ Calculated
    /\ estimates[last.id].subtotal > 0
    /\ estimates[last.id].grand_total > estimates[last.id].subtotal

\* C10: once a toggle_bundle and an update_estimate_settings request on one
\* Estimate have both committed, in whatever order their steps ran, its four
\* stored totals are those of its committed active bundles and percentages.
C10_RaceEndsFresh ==
    (all_ok /\ \A w \in Workers : requests[w].pc = "idle") =>
        \A id \in Ids : Fresh(id)

\* C11: after a delete_estimate request the Estimate is gone from the store
\* and no MaterialItem or LaborItem of it remains, however many line items it
\* had.
C11_DeleteCascades ==
    last.op = "delete" =>
        /\ last.id \notin Ids
        /\ ItemsOf(material_items, last.id) = << >>
        /\ ItemsOf(labor_items, last.id) = << >>

\* the indices of the materials whose bundle is bundle_name
BundleIndices(materials, bundle_name) ==
    {i \in 1..Len(materials) : materials[i].bundle = bundle_name}

C13_LaborTotalIgnoresBundles ==
    \A id \in Ids :
        LET labor    == ItemsOf(labor_items, id)
            expected == SumCosts(labor, 1..Len(labor))
        IN  /\ (Calculated /\ last.id = id) => last.calc.labor_total = expected
            /\ \A active \in StoredActiveLists :
                  LET run == calculate_estimate_totals(
                                 [estimates[id] EXCEPT !.active_bundles_json = active],
                                 ItemsOf(material_items, id), labor)
                  IN  ~run.raised => run.labor_total = expected

\* a run after a toggle that emptied the active list, on an Estimate with a
\* categorised labor item
C13_Witness ==
    /\ Calculated
    /\ last.op = "toggle"
    /\ get_active_bundles(estimates[last.id]) = << >>
    /\ Len(ItemsOf(labor_items, last.id)) = 1
    /\ ItemsOf(labor_items, last.id)[1].category = "Carpentry"
    /\ last.calc.labor_total = 300000

\* C14: in every reachable state the profit percentage and the contingency
\* percentage of every stored Estimate lie in [0, 100].
C14_PercentagesInRange ==
    \A id \in Ids :
        /\ estimates[id].profit_percentage >= 0
        /\ estimates[id].profit_percentage <= 100
        /\ estimates[id].contingency_percentage >= 0
        /\ estimates[id].contingency_percentage <= 100

\* an update_settings request that submitted -5 or 0 and 150 was stored as 0
\* and 100, and the Estimate was then duplicated
C14_Witness ==
    /\ last.op = "duplicate"
    /\ last.status = "ok"
    /\ estimates[last.id].profit_percentage = 0
    /\ estimates[last.id].contingency_percentage = 100

\* the four computed fields of an Estimate
ComputedFields == {"subtotal", "profit_amount", "contingency_amount", "grand_total"}

\* C15: a run of calculate_estimate_totals, on any stored Estimate under any
\* active-bundle list and percentages it can hold, returns the Estimate with
\* every field other than the four computed ones as it was (and with all
\* fields as they were when it raises); and a request that ran it leaves every
\* line item that existed before as it was, total_cost included.
C15_WritesOnlyTotals ==
    /\ [](\A id \in Ids :
            \A active \in StoredActiveLists, p \in StoredPercentages,
               c \in StoredPercentages :
               LET estimate == [estimates[id] EXCEPT !.active_bundles_json = active,
                                                     !.profit_percentage = p,
                                                     !.contingency_percentage = c]
                   run == calculate_estimate_totals(estimate,
                              ItemsOf(material_items, id), ItemsOf(labor_items, id))
               IN  /\ \A field \in (DOMAIN estimate) \ ComputedFields :
                          run.estimate[field] = estimate[field]
                   /\ run.raised => run.estimate = estimate)
    /\ [][last'.calc.called =>
            /\ Len(material_items') >= Len(material_items)
            /\ SubSeq(material_items', 1, Len(material_items)) = material_items
            /\ Len(labor_items') >= Len(labor_items)
            /\ SubSeq(labor_items', 1, Len(labor_items)) = labor_items
            /\ \A id \in Ids : get_areas(estimates'[id]) = get_areas(estimates[id])
         ]_vars

\* a run on an Estimate with a profit percentage of 0, an empty active list,
\* line items and area records, which stored non-zero totals
C15_Witness ==
    /\ Calculated
    /\ estimates[last.id].profit_percentage = 0
    /\ get_active_bundles(estimates[last.id]) = << >>
    /\ Len(ItemsOf(material_items, last.id)) = 2
    /\ Len(ItemsOf(labor_items, last.id)) = 1
    /\ Len(get_areas(estimates[last.id])) = 1
    /\ estimates[last.id].subtotal = 150000

\* cents is a whole number of cents nearest to the unrounded amount
NearestCent(cents, amount) ==
    /\ cents \in {amount.w, amount.w + 1}
    /\ cents = amount.w => 2 * amount.f <= 100000
    /\ cents = amount.w + 1 => 2 * amount.f >= 100000

\* C16: after a successful run each of the four stored fields is a whole
\* number of cents, the one nearest to the unrounded value of the run: the sum
\* of the three components, that sum times p/100, the unrounded sum plus
\* unrounded profit times c/100, and the sum of the three unrounded amounts.
C16_StoredRoundedToCents ==
    Calculated =>
        LET estimate == estimates[last.id]
            subtotal == AmtFromMills(last.calc.material_total + last.calc.labor_total
                                       + last.calc.area_cost)
            profit   == AmtPct(subtotal, last.calc.profit_percentage)
            contingency ==
                AmtPct(AmtAdd(subtotal, profit), last.calc.contingency_percentage)
            grand_total == AmtAdd(AmtAdd(subtotal, profit), contingency)
        IN  /\ NearestCent(estimate.subtotal, subtotal)
            /\ NearestCent(estimate.profit_amount, profit)
            /\ NearestCent(estimate.contingency_amount, contingency)
            /\ NearestCent(estimate.grand_total, grand_total)

\* a run whose sum is 1000.333 and whose profit is 150.04995: stored as
\* 1000.33 and 150.05
C16_Witness ==
    /\ Calculated
    /\ last.calc.material_total + last.calc.labor_total + last.calc.area_cost = 1000333
    /\ last.calc.profit_percentage = 15
    /\ estimates[last.id].subtotal = 100033
    /\ estimates[last.id].profit_amount = 15005

\* the tables and the key counter
Store == <<estimates, material_items, labor_items, next_id>>

\* the responses only the body of a login_required handler gives
ProtectedOps ==
    {"create", "view", "toggle", "settings", "download", "history", "duplicate",
     "delete"}

\* C17: a step that changes the store, answers from the body of a protected
\* handler or runs the purge on the index route is taken with an authenticated
\* session; the session becomes authenticated only by a login POST with the
\* matching password; logout leaves it unauthenticated, and from then on a
\* protected request is redirected and the store stays as it is.
C17_SessionGate ==
    [][ /\ Store' # Store => "authenticated" \in session
        /\ (last' # last /\ last'.op \in ProtectedOps) => "authenticated" \in session
        /\ (last' # last /\ last'.op = "index" /\ last'.status = "ok") =>
               "authenticated" \in session
        /\ ("authenticated" \notin session /\ "authenticated" \in session') =>
               Login(admin_password)
        /\ Logout => "authenticated" \notin session'
        /\ (last' # last /\ "authenticated" \notin session) =>
               /\ last'.op \in {"protected", "index", "login", "logout"}
               /\ last'.op = "protected" => last'.status = "redirect"
               /\ last'.op = "index" => last'.status = "login"
               /\ Store' = Store
      ]_vars

\* after a logout, with estimates in the store, a protected request was
\* redirected to login
C17_Witness ==
    /\ session = {}
    /\ Ids = {1, 2}
    /\ last.op = "protected"
    /\ last.status = "redirect"

\* C18: right after an authenticated visit to the index route no Estimate
\* created more than 90 days ago is left in the store, with or without line
\* items.
C18_IndexPurgesExpired ==
    (last.op = "index" /\ last.status = "ok") =>
        \A id \in Ids : now - estimates[id].created_at <= 90

\* C19: after a create_estimate request that aborted in blueprint analysis or
\* in the schema detection of the materials or the labor file, the store holds
\* no Estimate under the id the request had drawn.
C19_FailedCreationLeavesNoTrace ==
    (last.op = "create" /\ last.status = "error" /\ ~last.calc.called) =>
        last.id \notin Ids

\* C20: in every reachable state the active-bundle list of every Estimate has
\* no duplicate and holds only names of its detected-bundle list.
C20_ActiveWithinDetected ==
    \A id \in Ids :
        LET active == get_active_bundles(estimates[id])
        IN  /\ SeqToSet(active) \subseteq SeqToSet(get_detected_bundles(estimates[id]))
            /\ Cardinality(SeqToSet(active)) = Len(active)

\* C21: after every successful run the stored grand_total equals the sum of
\* the stored subtotal, profit_amount and contingency_amount, to the cent.
C21_TotalsAddUp ==
    Calculated =>
        LET estimate == estimates[last.id]
        IN  estimate.grand_total =
                estimate.subtotal + estimate.profit_amount
                    + estimate.contingency_amount

\* the sum of total_cost over the entries of an area_costs map
RECURSIVE SumEntries(_, _)
SumEntries(entries, i) ==
    IF i > Len(entries) THEN 0
    ELSE entries[i].value.total_cost + SumEntries(entries, i + 1)

\* C22: in a report the area_costs map has as many entries as the Estimate has
\* area records, and the total_cost of its entries add up to
\* totals.area_costs.
C22_AreaEntryPerRecord ==
    (last.op = "download" /\ last.status = "ok") =>
        /\ Len(last.report.area_costs) = Len(get_areas(estimates[last.id]))
        /\ SumEntries(last.report.area_costs, 1) = last.report.totals.area_costs

\* C23: the commit of a toggle_bundle request changes, in the committed
\* active-bundle list, the membership of no bundle name other than its own;
\* hence of two requests for two different names, in whatever order their
\* steps run, each name changes membership exactly once and no toggle is
\* lost.
C23_NoToggleLost ==
    [][\A w \in Workers :
          (requests[w].pc = "toggle" /\ FinishToggle(w)) =>
              \A bundle_name \in RaceToggleForms \ {requests[w].bundle_name} :
                  InList(bundle_name, get_active_bundles(estimates'[requests[w].id]))
                    <=> InList(bundle_name,
                               get_active_bundles(estimates[requests[w].id]))
      ]_vars

====
